---- MODULE Spec2Model ----
(***************************************************************************)
(* A model of dm-aiomodbus: the session layer in front of a pymodbus       *)
(* client (DMAioModbusBaseClient), its reconnect loop, its register        *)
(* operations and its ephemeral temp_connect mode.                         *)
(*                                                                         *)
(* One session is modelled.  Its coroutines are the application task       *)
(* (appPc), the background _reconnect_loop() tasks that connect() starts   *)
(* (mon) and a second caller that may call disconnect() at any suspension  *)
(* point.  asyncio is cooperative: an action is the code between two       *)
(* awaits.  The adapter (pymodbus client) is the environment: its          *)
(* connect() answers True/False or raises, its requests answer or fail,    *)
(* its link may drop at any time, and constructing it does not fail.       *)
(***************************************************************************)
EXTENDS Integers, Sequences, FiniteSets, TLC

\* ----------------------------------------------------------------- bounds
\* Adapter instances one session may construct (bounds connection attempts).
MaxInst == 2
\* Background _reconnect_loop tasks one session may start.
MaxMon == 2
\* API calls (connect(), register operations) the application task makes.
MaxCalls == 3
\* Polls of the "Action on pause" wait loop; stands for the
\* (reconnect_interval + 1) / 0.1 polls of the code.
MaxWaitPolls == 2
\* Actions submitted to the queue-driven session.
MaxActions == 2
\* Drain loops that can exist at once (one more than the lock allows).
MaxLoops == 2
\* The idle timeout, in sampling intervals of the idle timer.
IdleTimeout == 2
\* Link losses of the queue-driven session.
MaxDrops == 1
\* The timeout of execute_and_return, in polls of its completion flag.
ErTimeout == 2

NoClient == 0
Insts == 1..MaxInst
Mons == 1..MaxMon

ReadOps == {"read_coils", "read_discrete_inputs", "read_holding_registers",
            "read_input_registers"}
WriteOps == {"write_coil", "write_register", "write_coils", "write_registers"}
RegisterOps == ReadOps \cup WriteOps

VARIABLES
    mode,        \* "persistent": the application owns the session; "ephemeral": temp_connect
    client,      \* self.__client: NoClient (None) or the adapter instance
    made,        \* adapter instances constructed so far
    connected,   \* the adapter's `connected` flag, per instance
    soft_discon, \* self.__soft_discon
    appPc,       \* where the application task is suspended
    appInst,     \* the adapter instance whose coroutine the application task awaits
    polls,       \* iterations of the wait loop of __execute done so far
    api,         \* the API the application task called last
    calls,       \* API calls made by the application task
    ret,         \* what the last completed API call returned (or that it raised)
    outcome,     \* what the adapter answered to the last register request
    cAttempts,   \* adapter connect() calls issued by the current connect()
    cLast,       \* how the last pass of connect()'s loop ended
    mon,         \* the background _reconnect_loop tasks
    discLogs,    \* "Disconnected!" lines logged since the last "Connected!"
    closes,      \* close operations (disconnect / soft disconnect) since the last "Connected!"
    cbCalls,     \* invocations of temp_connect's callback
    cbCallable   \* callable(callback), as temp_connect found it

sessionVars == <<mode, client, made, connected, soft_discon, appPc, appInst, polls,
                 api, calls, ret, outcome, cAttempts, cLast, mon, discLogs, closes,
                 cbCalls, cbCallable>>

\* The queue-driven session (execute(), the drain loop, the idle timer).
VARIABLES
    qQueue,      \* the FIFO queue of pending actions
    qLock,       \* the single-flight lock
    qRetry,      \* the action marked for its one retry, or NoAction
    qConn,       \* the adapter's liveness flag
    qLoop,       \* the drain loops: where each is suspended, and on which action
    qTimers,     \* the idle timers alive, by their accumulated idle time
    qLog,        \* the invocations completed, in order, each with its success
    qNext,       \* actions submitted so far (an action's id is its submission rank)
    qInvalid,    \* the non-callable entries submitted
    qAcquired,   \* times the lock was acquired
    qReleased,   \* times the lock was released
    qConnSince,  \* connect() calls since the lock was last acquired (0, 1, or 2 for more)
    qRunsSince,  \* invocations completed since the lock was last acquired (0, or 1 for some)
    qIdleClosed, \* the idle timer closed the connection, and it is still closed
    qWasIdleClosed, \* qIdleClosed as it was when the lock was last acquired
    qFirst,      \* the action whose execute() last acquired the lock
    qIdleTicks,  \* sampling intervals since the lock was last released
    qDrops       \* link losses so far

queueVars == <<qQueue, qLock, qRetry, qConn, qLoop, qTimers, qLog, qNext, qInvalid,
               qAcquired, qReleased, qConnSince, qRunsSince, qIdleClosed,
               qWasIdleClosed, qFirst, qIdleTicks, qDrops>>

\* One call of execute_and_return on the queue-driven session.
VARIABLES
    erPc,        \* the caller: "none", "waiting" (polling the flag) or "returned"
    erId,        \* the action that wraps the caller's callback, or 0
    erTicks,     \* polls of the completion flag done so far
    erDone,      \* the completion flag (set with the result slot)
    erRet        \* what execute_and_return returned: "result" or "None"

returnVars == <<erPc, erId, erTicks, erDone, erRet>>

\* The class-level configuration and the last call of one of its setters.
VARIABLES
    reconnect_interval, \* cls.__reconnect_interval
    logger,             \* cls.__logger: NoLogger (None) or the logger object set
    cfgApi,             \* the setter called last
    cfgArg,             \* its argument
    cfgRet,             \* "None" once it has returned
    cfgPrinted          \* it printed a diagnostic

configVars == <<reconnect_interval, logger, cfgApi, cfgArg, cfgRet, cfgPrinted>>

vars == <<sessionVars, queueVars, returnVars, configVars>>

\* What the actions of one part of the model leave alone.
outsideSession == <<queueVars, returnVars, configVars>>
outsideQueue == <<sessionVars, returnVars, configVars>>
outsideConfig == <<sessionVars, queueVars, returnVars>>

\* ------------------------------------------------------------ properties
is_exists == client # NoClient

is_connected == is_exists /\ connected[client]

\* ------------------------------------------------------------------ Init
MonIdle == [pc |-> "none", inst |-> NoClient]

SessionInit ==
    /\ mode \in {"persistent", "ephemeral"}
    /\ client = NoClient
    /\ made = 0
    /\ connected = [i \in Insts |-> FALSE]
    /\ soft_discon = FALSE
    /\ appPc = IF mode = "persistent" THEN "idle" ELSE "t_idle"
    /\ appInst = NoClient
    /\ polls = 0
    /\ api = "none"
    /\ calls = 0
    /\ ret = "none"
    /\ outcome = "none"
    /\ cAttempts = 0
    /\ cLast = "none"
    /\ mon = [k \in Mons |-> MonIdle]
    /\ discLogs = 0
    /\ closes = 0
    /\ cbCalls = 0
    /\ cbCallable = FALSE

\* --------------------------------------------------------- shared pieces
\* Where a finished call resumes: the application's own code, or the callback
\* that temp_connect is running.
AppReturn == IF mode = "persistent" THEN "idle" ELSE "t_cb"

FreeMons == {k \in Mons : mon[k].pc = "none"}

\* asyncio.create_task(_reconnect_loop()): a new background task, not yet run.
create_task ==
    LET k == CHOOSE j \in FreeMons : \A l \in FreeMons : j <= l
    IN  mon' = [mon EXCEPT ![k] = [pc |-> "ready", inst |-> NoClient]]

\* client.close() of the adapter: the link flag goes down.
AdapterClosed(conn, i) == [conn EXCEPT ![i] = FALSE]

\* The "already announced" test of __soft_disconnect (and, first, the faulty
\* variant that announces on every call).
announce_needed_always == TRUE
announce_needed == ~soft_discon

\* __soft_disconnect(): announce once, then close the adapter if there is one.
soft_disconnect ==
    IF is_exists
    THEN /\ soft_discon' = TRUE
         /\ discLogs' = IF announce_needed THEN discLogs + 1 ELSE discLogs
         /\ connected' = AdapterClosed(connected, client)
    ELSE UNCHANGED <<soft_discon, discLogs, connected>>

\* A close operation was called: counted up to 2, enough to tell a repeat.
CloseCounted == IF closes < 2 THEN closes + 1 ELSE closes

\* connect()'s test "if self.is_connected: ... return" (and, first, the
\* faulty variant without the test).
already_connected_never == FALSE
already_connected == is_connected

\* Where _reconnect_loop(exit_after_connect=True) goes after its except
\* block: the sleep, then the next pass of `while True` (and, first, the
\* faulty variant that leaves the loop after one failed attempt).
after_failed_attempt_break == "c_yield"
after_failed_attempt == "c_backoff"

\* ------------------------------------------------------------- connect()
\* __connect() up to its await: a new adapter replaces self.__client and its
\* connect() is called (and, first, the variant that would keep an existing
\* adapter and only connect it again).
priv_connect_reuse ==
    /\ made < MaxInst
    /\ made' = IF is_exists THEN made ELSE made + 1
    /\ client' = IF is_exists THEN client ELSE made + 1
priv_connect ==
    /\ made < MaxInst
    /\ made' = made + 1
    /\ client' = made + 1

\* connect() from its first line to its first await.
connect_enter ==
    /\ cAttempts' = IF already_connected THEN 0 ELSE 1
    /\ IF already_connected
       THEN /\ appPc' = AppReturn
            /\ ret' = "None"
            /\ cLast' = "already"
            /\ cbCalls' = IF mode = "ephemeral" THEN cbCalls + 1 ELSE cbCalls
            /\ UNCHANGED <<client, made, appInst>>
       ELSE /\ FreeMons # {}
            /\ priv_connect
            /\ appInst' = client'
            /\ appPc' = "c_await"
            /\ ret' = "none"
            /\ cLast' = "none"
            /\ UNCHANGED cbCalls

\* The application calls connect() on its session.
connect_call ==
    /\ mode = "persistent"
    /\ appPc = "idle"
    /\ calls < MaxCalls
    /\ calls' = calls + 1
    /\ api' = "connect"
    /\ outcome' = "none"
    /\ connect_enter
    /\ UNCHANGED <<mode, connected, soft_discon, polls, mon, discLogs, closes, cbCallable>>

\* The adapter answers the connect() that connect() awaits.
connect_result(ans) ==
    /\ appPc = "c_await"
    /\ IF ans = "true"
       THEN \* "Connected!", break, create_task, sleep(0.001)
            /\ connected' = [connected EXCEPT ![appInst] = TRUE]
            /\ discLogs' = 0
            /\ closes' = 0
            /\ cLast' = "ok"
            /\ create_task
            /\ appPc' = "c_yield"
            /\ UNCHANGED <<ret, api>>
       ELSE IF client = NoClient
       THEN \* self.__client.close() on None: AttributeError leaves connect();
            \* temp_connect catches it (except Exception) and returns None
            /\ cLast' = "fail"
            /\ appPc' = IF mode = "persistent" THEN "idle" ELSE "t_done"
            /\ ret' = IF mode = "persistent" THEN "raised" ELSE "None"
            /\ UNCHANGED <<connected, discLogs, closes, mon, api>>
       ELSE \* close, log, sleep(reconnect_interval)
            /\ connected' = AdapterClosed(connected, client)
            /\ cLast' = "fail"
            /\ appPc' = after_failed_attempt
            /\ UNCHANGED <<discLogs, closes, mon, ret, api>>
    /\ UNCHANGED <<mode, client, made, soft_discon, appInst, polls, calls, outcome,
                   cAttempts, cbCalls, cbCallable>>

\* connect() wakes from the back-off sleep: the next pass of its loop.
connect_backoff ==
    /\ appPc = "c_backoff"
    /\ IF is_connected
       THEN /\ cLast' = "found"
            /\ create_task
            /\ appPc' = "c_yield"
            /\ UNCHANGED <<client, made, appInst, cAttempts>>
       ELSE /\ priv_connect
            /\ appInst' = client'
            /\ cAttempts' = cAttempts + 1
            /\ cLast' = "none"
            /\ appPc' = "c_await"
            /\ UNCHANGED mon
    /\ UNCHANGED <<mode, connected, soft_discon, polls, api, calls, ret, outcome,
                   discLogs, closes, cbCalls, cbCallable>>

\* connect() returns after its sleep(0.001); temp_connect then invokes the callback.
connect_return ==
    /\ appPc = "c_yield"
    /\ appPc' = AppReturn
    /\ ret' = "None"
    /\ cbCalls' = IF mode = "ephemeral" THEN cbCalls + 1 ELSE cbCalls
    /\ UNCHANGED <<mode, client, made, connected, soft_discon, appInst, polls, api,
                   calls, outcome, cAttempts, cLast, mon, discLogs, closes, cbCallable>>

\* ------------------------------------- the background _reconnect_loop()
\* Where _reconnect_loop() goes after its except block: the sleep, then the
\* next pass of `while True` (and, first, the faulty variant in which the
\* task gives up after a failure).
after_monitor_failure_end == "ended"
after_monitor_failure == "backoff"

\* The except block of the loop, run by a background task.
mon_handler(k) ==
    IF client = NoClient
    THEN \* AttributeError in the except block: the task dies
         /\ mon' = [mon EXCEPT ![k] = [pc |-> "crashed", inst |-> NoClient]]
         /\ UNCHANGED connected
    ELSE /\ connected' = AdapterClosed(connected, client)
         /\ mon' = [mon EXCEPT ![k] = [pc |-> after_monitor_failure, inst |-> NoClient]]

\* A pass of `while True` starts: first run of the task, or after the back-off.
mon_top(k) ==
    /\ mon[k].pc \in {"ready", "backoff"}
    /\ IF ~is_connected
       THEN /\ priv_connect
            /\ mon' = [mon EXCEPT ![k] = [pc |-> "await", inst |-> client']]
       ELSE /\ mon' = [mon EXCEPT ![k] = [pc |-> "poll", inst |-> NoClient]]
            /\ UNCHANGED <<client, made>>
    /\ UNCHANGED <<mode, connected, soft_discon, appPc, appInst, polls, api, calls, ret,
                   outcome, cAttempts, cLast, discLogs, closes, cbCalls, cbCallable>>

\* The adapter answers the connect() a background task awaits.
mon_result(k, ans) ==
    /\ mon[k].pc = "await"
    /\ IF ans = "true"
       THEN LET conn == [connected EXCEPT ![mon[k].inst] = TRUE]
            IN  /\ discLogs' = 0
                /\ closes' = 0
                /\ IF client = NoClient
                   THEN /\ connected' = conn
                        /\ mon' = [mon EXCEPT ![k] = [pc |-> "ended", inst |-> NoClient]]
                   ELSE IF conn[client]
                   THEN /\ connected' = conn
                        /\ mon' = [mon EXCEPT ![k] = [pc |-> "poll", inst |-> NoClient]]
                   ELSE /\ connected' = AdapterClosed(conn, client)
                        /\ mon' = [mon EXCEPT ![k] =
                                      [pc |-> after_monitor_failure, inst |-> NoClient]]
       ELSE /\ mon_handler(k)
            /\ UNCHANGED <<discLogs, closes>>
    /\ UNCHANGED <<mode, client, made, soft_discon, appPc, appInst, polls, api, calls,
                   ret, outcome, cAttempts, cLast, cbCalls, cbCallable>>

\* A background task wakes from sleep(0.1) and no longer finds the link up.
mon_poll(k) ==
    /\ mon[k].pc = "poll"
    /\ ~is_connected
    /\ IF ~is_exists
       THEN /\ mon' = [mon EXCEPT ![k] = [pc |-> "ended", inst |-> NoClient]]
            /\ UNCHANGED connected
       ELSE mon_handler(k)
    /\ UNCHANGED <<mode, client, made, soft_discon, appPc, appInst, polls, api, calls,
                   ret, outcome, cAttempts, cLast, discLogs, closes, cbCalls, cbCallable>>

\* ---------------------------------------------------------- disconnect()
\* Another caller of the persistent session calls disconnect().
disconnect ==
    /\ mode = "persistent"
    /\ closes' = CloseCounted
    /\ IF is_exists
       THEN /\ discLogs' = IF is_connected THEN discLogs + 1 ELSE discLogs
            /\ connected' = AdapterClosed(connected, client)
            /\ client' = NoClient
       ELSE UNCHANGED <<discLogs, connected, client>>
    /\ UNCHANGED <<mode, made, soft_discon, appPc, appInst, polls, api, calls, ret,
                   outcome, cAttempts, cLast, mon, cbCalls, cbCallable>>

\* ------------------------------------------------------ the environment
\* The link of a connected adapter drops.
link_loss(i) ==
    /\ connected[i]
    /\ connected' = AdapterClosed(connected, i)
    /\ UNCHANGED <<mode, client, made, soft_discon, appPc, appInst, polls, api, calls,
                   ret, outcome, cAttempts, cLast, mon, discLogs, closes, cbCalls,
                   cbCallable>>

\* ------------------------------------------------- register operations
\* What the adapter may answer to a request: a response (for a read: with as
\* many registers as asked, with another number, or with none), a response
\* that isError() / an ExceptionResponse, or an exception.
OkOutcomes == {"ok", "ok_mismatch", "ok_noregs"}
ErrorOutcomes == {"error_response", "modbus_exception", "other_exception"}

\* An adapter without a link does not answer with a response.
Outcomes(op, i) ==
    ErrorOutcomes \cup
    (IF connected[i] THEN (IF op \in ReadOps THEN OkOutcomes ELSE {"ok"}) ELSE {})

\* The except clauses of __execute: ModbusException (which the error
\* response has been turned into), then Exception (and, first, the faulty
\* variant without the second clause).
execute_catches_modbus_only(o) == o \in {"error_response", "modbus_exception"}
execute_catches(o) == o \in {"error_response", "modbus_exception", "other_exception"}

\* What __execute returns for an adapter answer it did not raise on.
execute_result(o) == IF o \in OkOutcomes THEN o ELSE "None"

\* __read_register on __execute's result: None stays None; otherwise the
\* registers of the response, [] when it has none; a count mismatch only
\* warns.  (First, the faulty variant that drops a mismatching response.)
priv_read_register_strict(r) ==
    CASE r = "None" -> "None"
      [] r = "ok" -> "registers"
      [] r = "ok_mismatch" -> "None"
      [] r = "ok_noregs" -> "empty"
priv_read_register(r) ==
    CASE r = "None" -> "None"
      [] r = "ok" -> "registers"
      [] r = "ok_mismatch" -> "registers_mismatch"
      [] r = "ok_noregs" -> "empty"

\* __write on __execute's result: bool(result).
priv_write(r) == IF r = "None" THEN "False" ELSE "True"

api_result(op, r) == IF op \in ReadOps THEN priv_read_register(r) ELSE priv_write(r)

\* __execute from "if not self.is_exists or skip" to the adapter call.
execute_call(op) ==
    IF ~is_exists
    THEN \* hasattr(None, method_name) is False: "Method not found", None
         /\ ret' = api_result(op, "None")
         /\ appPc' = AppReturn
         /\ UNCHANGED appInst
    ELSE /\ appPc' = "x_await"
         /\ appInst' = client
         /\ ret' = "none"

\* The application (or the callback of temp_connect) calls a register operation.
op_call(op) ==
    /\ appPc \in {"idle", "t_cb"}
    /\ calls < MaxCalls
    /\ calls' = calls + 1
    /\ api' = op
    /\ outcome' = "none"
    /\ polls' = 0
    /\ IF is_exists /\ ~is_connected
       THEN \* "Action on pause!": retries = 0, first sleep(0.1)
            /\ appPc' = "x_wait"
            /\ ret' = "none"
            /\ UNCHANGED appInst
       ELSE execute_call(op)
    /\ UNCHANGED <<mode, client, made, connected, soft_discon, cAttempts, cLast, mon,
                   discLogs, closes, cbCalls, cbCallable>>

\* The wait loop's test "retries >= reconnect_interval + 1" after p sleeps
\* (and, first, the faulty variant that waits without a bound).
wait_expired_never(p) == FALSE
wait_expired(p) == p >= MaxWaitPolls

\* __execute wakes from a sleep(0.1) of its wait loop.
op_wait ==
    /\ appPc = "x_wait"
    /\ polls' = polls + 1
    /\ IF is_connected \/ wait_expired(polls + 1)
       THEN execute_call(api)
       ELSE UNCHANGED <<appPc, appInst, ret>>
    /\ UNCHANGED <<mode, client, made, connected, soft_discon, api, calls, outcome,
                   cAttempts, cLast, mon, discLogs, closes, cbCalls, cbCallable>>

\* The adapter answers the request (or raises); __execute handles it and the
\* operation returns.
op_result(o) ==
    /\ appPc = "x_await"
    /\ o \in Outcomes(api, appInst)
    /\ outcome' = o
    /\ appPc' = AppReturn
    /\ IF o \in OkOutcomes
       THEN /\ ret' = api_result(api, execute_result(o))
            /\ UNCHANGED <<soft_discon, discLogs, connected, closes>>
       ELSE IF execute_catches(o)
       THEN /\ soft_disconnect
            /\ closes' = CloseCounted
            /\ ret' = api_result(api, execute_result(o))
       ELSE /\ ret' = "raised"
            /\ UNCHANGED <<soft_discon, discLogs, connected, closes>>
    /\ UNCHANGED <<mode, client, made, appInst, polls, api, calls, cAttempts, cLast,
                   mon, cbCalls, cbCallable>>

\* --------------------------------------------------------- temp_connect()
\* The finally block of temp_connect: cls.__soft_disconnect(client).  The
\* assignment cls.__soft_discon = False that follows sets the class
\* attribute; the instance attribute set in __init__ is the one read.
\* (First, the faulty variant whose finally block does not close.)
temp_finally_skip == UNCHANGED <<soft_discon, discLogs, connected>>
temp_finally == soft_disconnect

\* temp_connect(callback, ...) is called: the callable test, the new session
\* and its connect() up to the first await.
temp_call(isCallable, loggerSet) ==
    /\ appPc = "t_idle"
    /\ api' = "temp_connect"
    /\ cbCallable' = isCallable
    /\ IF ~isCallable
       THEN \* cls.__logger.error(...): AttributeError when no logger was set
            /\ appPc' = "t_done"
            /\ ret' = IF loggerSet THEN "None" ELSE "raised"
            /\ UNCHANGED <<client, made, appInst, cAttempts, cLast, cbCalls>>
       ELSE connect_enter
    /\ UNCHANGED <<mode, connected, soft_discon, polls, calls, outcome, mon, discLogs,
                   closes>>

\* The callback ends, by returning or by raising; the except clause logs,
\* the finally block closes, temp_connect returns.
callback_end(how) ==
    /\ appPc = "t_cb"
    /\ appPc' = "t_done"
    /\ outcome' = how
    /\ ret' = IF how = "cb_return" THEN "cb_result" ELSE "None"
    /\ temp_finally
    /\ closes' = CloseCounted
    /\ UNCHANGED <<mode, client, made, appInst, polls, api, calls, cAttempts, cLast,
                   mon, cbCalls, cbCallable>>

\* ================================================= the queue-driven session
\* execute(), the drain loop and the idle timer, as sections 4.2 and 4.3 of
\* the specification describe them (aiomodbus_serial_client.py builds this
\* session: DMAioModbusBaseClientConfig with disconnect_timeout_s).
NoAction == 0
Loops == 1..MaxLoops
LoopIdle == [pc |-> "none", cur |-> NoAction, isRetry |-> FALSE]

QueueInit ==
    /\ qQueue = <<>>
    /\ qLock = FALSE
    /\ qRetry = NoAction
    /\ qConn = FALSE
    /\ qLoop = [k \in Loops |-> LoopIdle]
    /\ qTimers = {}
    /\ qLog = <<>>
    /\ qNext = 0
    /\ qInvalid = {}
    /\ qAcquired = 0
    /\ qReleased = 0
    /\ qConnSince = 0
    /\ qRunsSince = 0
    /\ qIdleClosed = FALSE
    /\ qWasIdleClosed = FALSE
    /\ qFirst = NoAction
    /\ qIdleTicks = 0
    /\ qDrops = 0

ActiveLoops == {k \in Loops : qLoop[k].pc # "none"}

\* execute()'s test "the executor is already Draining" (and, first, the
\* faulty variant without the test).
Draining_never == FALSE
Draining == qLock

\* execute(callback): enqueue; when Idle, take the lock and start a drain loop.
q_execute(isCallable) ==
    /\ qNext < MaxActions
    /\ qNext' = qNext + 1
    /\ qQueue' = Append(qQueue, [id |-> qNext + 1, callable |-> isCallable])
    /\ qInvalid' = IF isCallable THEN qInvalid ELSE qInvalid \cup {qNext + 1}
    /\ IF Draining
       THEN UNCHANGED <<qLock, qLoop, qAcquired, qConnSince, qRunsSince, qWasIdleClosed,
                        qFirst>>
       ELSE /\ \E k \in Loops : qLoop[k].pc = "none"
            /\ LET k == CHOOSE j \in Loops : qLoop[j].pc = "none"
               IN  qLoop' = [qLoop EXCEPT ![k] = [LoopIdle EXCEPT !.pc = "top"]]
            /\ qLock' = TRUE
            /\ qAcquired' = qAcquired + 1
            /\ qConnSince' = 0
            /\ qRunsSince' = 0
            /\ qWasIdleClosed' = qIdleClosed
            /\ qFirst' = qNext + 1
    /\ UNCHANGED <<qRetry, qConn, qTimers, qLog, qReleased, qIdleClosed, qIdleTicks,
                   qDrops>>

\* Step 1 of the drain loop: connect() is called when the link is down
\* (not again in the pass that has just called it).  First, the faulty
\* variant that never connects.
ensure_connected_never(c, justConnected) == FALSE
ensure_connected(c, justConnected) == ~c /\ ~justConnected

\* One pass of the drain loop from its `while` test to its next suspension,
\* with queue q, retry marker r and link state c: release the lock, call
\* connect(), or invoke an action.  A non-callable head is logged and skipped.
RECURSIVE DrainPass(_, _, _, _)
DrainPass(q, r, c, justConnected) ==
    IF q = <<>> /\ r = NoAction
    THEN [kind |-> "release", queue |-> q, cur |-> NoAction, isRetry |-> FALSE]
    ELSE IF ensure_connected(c, justConnected)
    THEN [kind |-> "connect", queue |-> q, cur |-> NoAction, isRetry |-> FALSE]
    ELSE IF r # NoAction
    THEN [kind |-> "run", queue |-> q, cur |-> r, isRetry |-> TRUE]
    ELSE IF Head(q).callable
    THEN [kind |-> "run", queue |-> Tail(q), cur |-> Head(q).id, isRetry |-> FALSE]
    ELSE DrainPass(Tail(q), NoAction, c, FALSE)

\* A connect() call of the drain loop was made: counted up to 2, enough to
\* tell one call from several.
ConnCounted == IF qConnSince < 2 THEN qConnSince + 1 ELSE qConnSince

\* The drain loop k goes on with what DrainPass found.
DrainApply(k, p) ==
    /\ qQueue' = p.queue
    /\ CASE p.kind = "release" ->
              \* step 6: release the lock, go Idle, arm the idle timer
              /\ qLoop' = [qLoop EXCEPT ![k] = LoopIdle]
              /\ qLock' = FALSE
              /\ qReleased' = qReleased + 1
              /\ qTimers' = qTimers \cup {0}
              /\ qIdleTicks' = 0
              /\ UNCHANGED qConnSince
         [] p.kind = "connect" ->
              /\ qLoop' = [qLoop EXCEPT ![k] = [LoopIdle EXCEPT !.pc = "connecting"]]
              /\ qConnSince' = ConnCounted
              /\ UNCHANGED <<qLock, qReleased, qTimers, qIdleTicks>>
         [] p.kind = "run" ->
              /\ qLoop' = [qLoop EXCEPT ![k] =
                              [pc |-> "running", cur |-> p.cur, isRetry |-> p.isRetry]]
              /\ UNCHANGED <<qLock, qReleased, qTimers, qIdleTicks, qConnSince>>

\* A drain loop runs for the first time.
drain_start(k) ==
    /\ qLoop[k].pc = "top"
    /\ DrainApply(k, DrainPass(qQueue, qRetry, qConn, FALSE))
    /\ UNCHANGED <<qRetry, qConn, qLog, qNext, qInvalid, qAcquired, qRunsSince,
                   qIdleClosed, qWasIdleClosed, qFirst, qDrops>>

\* connect() returns to the drain loop: the link is up, or the attempt failed
\* (logged, not raised).  After step 1 the loop selects and invokes; after the
\* reconnect of step 5 it starts its next pass.
drain_connected(k, ok) ==
    /\ qLoop[k].pc \in {"connecting", "reconnecting"}
    /\ qConn' = (qConn \/ ok)
    /\ qIdleClosed' = (qIdleClosed /\ ~(qConn \/ ok))
    /\ DrainApply(k, DrainPass(qQueue, qRetry, qConn \/ ok, qLoop[k].pc = "connecting"))
    /\ UNCHANGED <<qRetry, qLog, qNext, qInvalid, qAcquired, qRunsSince,
                   qWasIdleClosed, qFirst, qDrops>>

\* Steps 4 and 5: the retry marker after an invocation (and, first, the
\* faulty variant that marks a failed retry for retry again).
retry_marker_always(ok, cur, isRetry) == IF ok THEN NoAction ELSE cur
retry_marker(ok, cur, isRetry) == IF ok \/ isRetry THEN NoAction ELSE cur

\* The invoked action ends, in success or in failure.
drain_result(k, ok) ==
    /\ qLoop[k].pc = "running"
    /\ qLog' = Append(qLog, [id |-> qLoop[k].cur, ok |-> ok])
    /\ qRunsSince' = 1
    /\ LET r == retry_marker(ok, qLoop[k].cur, qLoop[k].isRetry)
       IN  /\ qRetry' = r
           /\ IF r # NoAction /\ ~qConn
              THEN \* the link is down at failure time: reconnect before the retry
                   /\ qLoop' = [qLoop EXCEPT ![k] = [LoopIdle EXCEPT !.pc = "reconnecting"]]
                   /\ qConnSince' = ConnCounted
                   /\ UNCHANGED <<qQueue, qLock, qReleased, qTimers, qIdleTicks>>
              ELSE DrainApply(k, DrainPass(qQueue, r, qConn, FALSE))
    /\ UNCHANGED <<qConn, qNext, qInvalid, qAcquired, qIdleClosed, qWasIdleClosed,
                   qFirst, qDrops>>

\* The idle timer's test at a sample: it closes only past the timeout (and,
\* first, the faulty variant that is one sample late).
timer_expired_late(t) == t > IdleTimeout + 1
timer_expired(t) == t > IdleTimeout

\* A sampling interval of the idle timers passes.  A timer that finds the lock
\* held exits; one that finds its idle time past the timeout, with the session
\* still unlocked and connected, closes the connection and exits.
idle_tick ==
    /\ qTimers # {} \/ (~qLock /\ qIdleTicks <= IdleTimeout)
    /\ qIdleTicks' = IF qLock \/ qIdleTicks > IdleTimeout THEN qIdleTicks ELSE qIdleTicks + 1
    /\ IF qLock
       THEN /\ qTimers' = {}
            /\ UNCHANGED <<qConn, qIdleClosed>>
       ELSE LET due == {t \in qTimers : timer_expired(t + 1)}
            IN  /\ qTimers' = {t + 1 : t \in qTimers \ due}
                /\ qConn' = (qConn /\ due = {})
                /\ qIdleClosed' = (qIdleClosed \/ (qConn /\ due # {}))
    /\ UNCHANGED <<qQueue, qLock, qRetry, qLoop, qLog, qNext, qInvalid, qAcquired,
                   qReleased, qConnSince, qRunsSince, qWasIdleClosed, qFirst, qDrops>>

\* The link of the queue-driven session drops.
q_link_loss ==
    /\ qConn
    /\ qDrops < MaxDrops
    /\ qDrops' = qDrops + 1
    /\ qConn' = FALSE
    /\ UNCHANGED <<qQueue, qLock, qRetry, qLoop, qTimers, qLog, qNext, qInvalid,
                   qAcquired, qReleased, qConnSince, qRunsSince, qIdleClosed,
                   qWasIdleClosed, qFirst, qIdleTicks>>

\* ------------------------------------------------- execute_and_return()
ReturnInit ==
    /\ erPc = "none"
    /\ erId = NoAction
    /\ erTicks = 0
    /\ erDone = FALSE
    /\ erRet = "none"

\* execute_and_return(callback, timeout): wrap the callback, enqueue the
\* wrapper via execute(), start polling the completion flag.
execute_and_return ==
    /\ erPc = "none"
    /\ q_execute(TRUE)
    /\ erId' = qNext + 1
    /\ erPc' = "waiting"
    /\ UNCHANGED <<erTicks, erDone, erRet>>

\* The wrapper: when the callback completes, its result goes to the result
\* slot and the completion flag is set.
wrapper_end(k, ok) ==
    /\ erDone' = (erDone \/ (ok /\ erId # NoAction /\ qLoop[k].cur = erId))
    /\ UNCHANGED <<erPc, erId, erTicks, erRet>>

\* An invoked action ends; the wrapper of execute_and_return records it.
action_end(k, ok) == drain_result(k, ok) /\ wrapper_end(k, ok)

\* The polling loop's test "the overall timeout has elapsed" after t polls.
er_timed_out(t) == t >= ErTimeout

\* What giving up the wait does to the drain loops: nothing, the action is
\* left to run (and, first, the faulty variant that cancels the invocation
\* in flight, as if it had failed its last attempt).
abandon_wait_cancel(loops) ==
    [k \in Loops |->
        IF loops[k].pc = "running" /\ loops[k].cur = erId
        THEN [pc |-> "top", cur |-> NoAction, isRetry |-> FALSE]
        ELSE loops[k]]
abandon_wait(loops) == loops

\* The caller wakes from a sleep of its polling loop.
execute_and_return_poll ==
    /\ erPc = "waiting"
    /\ IF erDone
       THEN /\ erPc' = "returned"
            /\ erRet' = "result"
            /\ UNCHANGED <<erTicks, qLoop>>
       ELSE IF er_timed_out(erTicks)
       THEN /\ erPc' = "returned"
            /\ erRet' = "None"
            /\ qLoop' = abandon_wait(qLoop)
            /\ UNCHANGED erTicks
       ELSE /\ erTicks' = erTicks + 1
            /\ UNCHANGED <<erPc, erRet, qLoop>>
    /\ UNCHANGED <<erId, erDone, qQueue, qLock, qRetry, qConn, qTimers, qLog, qNext,
                   qInvalid, qAcquired, qReleased, qConnSince, qRunsSince, qIdleClosed,
                   qWasIdleClosed, qFirst, qIdleTicks, qDrops>>

\* ------------------------------------- set_reconnect_interval, set_logger
\* The arguments tried: a value of a Python type.  isinstance(x, int) holds
\* for int and for bool (True is 1, False is 0).
MaxInterval == 3
IntervalArgs ==
    [type : {"int"}, val : -1..MaxInterval] \cup
    [type : {"bool"}, val : {0, 1}] \cup
    [type : {"float", "str", "NoneType"}, val : {0, 2}]

isinstance_int(x) == x.type \in {"int", "bool"}

\* A logger object: each of info, warning, error is missing, an attribute
\* that is not callable, or callable.
NoLogger == 0
LoggerIds == {1, 2}
AttrKinds == {"missing", "value", "callable"}
LoggerArgs == [id : LoggerIds, info : AttrKinds, warning : AttrKinds, error : AttrKinds]

ConfigInit ==
    /\ reconnect_interval = 5
    /\ logger = NoLogger
    /\ cfgApi = "none"
    /\ cfgArg = NoLogger
    /\ cfgRet = "none"
    /\ cfgPrinted = FALSE

\* The range test of set_reconnect_interval (and, first, the faulty variant
\* that admits 0).
below_minimum_off_by_one(x) == x.val < 0
below_minimum(x) == x.val < 1

set_reconnect_interval(x) ==
    /\ cfgApi' = "set_reconnect_interval"
    /\ cfgArg' = x
    /\ cfgRet' = "None"
    /\ IF ~isinstance_int(x)
       THEN cfgPrinted' = TRUE /\ UNCHANGED reconnect_interval
       ELSE IF below_minimum(x)
       THEN cfgPrinted' = TRUE /\ UNCHANGED reconnect_interval
       ELSE cfgPrinted' = FALSE /\ reconnect_interval' = x.val
    /\ UNCHANGED logger

\* hasattr(logger, name) and isinstance(getattr(logger, name), Callable)
has_callable(l, name) ==
    CASE name = "info" -> l.info = "callable"
      [] name = "warning" -> l.warning = "callable"
      [] name = "error" -> l.error = "callable"

\* The test of set_logger (and, first, the faulty variant that does not
\* look at error).
valid_logger_no_error(l) == has_callable(l, "info") /\ has_callable(l, "warning")
valid_logger(l) ==
    has_callable(l, "info") /\ has_callable(l, "warning") /\ has_callable(l, "error")

set_logger(l) ==
    /\ cfgApi' = "set_logger"
    /\ cfgArg' = l
    /\ cfgRet' = "None"
    /\ IF valid_logger(l)
       THEN cfgPrinted' = FALSE /\ logger' = l.id
       ELSE cfgPrinted' = TRUE /\ UNCHANGED logger
    /\ UNCHANGED reconnect_interval

ConfigNext ==
    \/ \E x \in IntervalArgs : set_reconnect_interval(x) /\ UNCHANGED outsideConfig
    \/ \E l \in LoggerArgs : set_logger(l) /\ UNCHANGED outsideConfig

ConnectAnswers == {"true", "false", "raise"}

Init == SessionInit /\ QueueInit /\ ReturnInit /\ ConfigInit

Next ==
    \/ connect_call /\ UNCHANGED outsideSession
    \/ \E ans \in ConnectAnswers : connect_result(ans) /\ UNCHANGED outsideSession
    \/ connect_backoff /\ UNCHANGED outsideSession
    \/ connect_return /\ UNCHANGED outsideSession
    \/ \E k \in Mons : mon_top(k) /\ UNCHANGED outsideSession
    \/ \E k \in Mons, ans \in ConnectAnswers : mon_result(k, ans) /\ UNCHANGED outsideSession
    \/ \E k \in Mons : mon_poll(k) /\ UNCHANGED outsideSession
    \/ disconnect /\ UNCHANGED outsideSession
    \/ \E i \in Insts : link_loss(i) /\ UNCHANGED outsideSession
    \/ \E op \in RegisterOps : op_call(op) /\ UNCHANGED outsideSession
    \/ op_wait /\ UNCHANGED outsideSession
    \/ \E o \in OkOutcomes \cup ErrorOutcomes : op_result(o) /\ UNCHANGED outsideSession
    \/ \E c, l \in BOOLEAN : temp_call(c, l) /\ UNCHANGED outsideSession
    \/ \E how \in {"cb_return", "cb_raise"} : callback_end(how) /\ UNCHANGED outsideSession

Spec == Init /\ [][Next]_vars

\* The setters of the class-level configuration on their own.
SpecConfig == Init /\ [][ConfigNext]_vars

\* A persistent session on which disconnect() is not called, with the
\* scheduling of asyncio: a task that can run does run, a sleep ends, and the
\* adapter (configured with timeout 1, retry 1) answers every call.
LiveInit == Init /\ mode = "persistent"

LiveNext ==
    \/ connect_call /\ UNCHANGED outsideSession
    \/ \E ans \in ConnectAnswers : connect_result(ans) /\ UNCHANGED outsideSession
    \/ connect_backoff /\ UNCHANGED outsideSession
    \/ connect_return /\ UNCHANGED outsideSession
    \/ \E k \in Mons : mon_top(k) /\ UNCHANGED outsideSession
    \/ \E k \in Mons, ans \in ConnectAnswers : mon_result(k, ans) /\ UNCHANGED outsideSession
    \/ \E k \in Mons : mon_poll(k) /\ UNCHANGED outsideSession
    \/ \E i \in Insts : link_loss(i) /\ UNCHANGED outsideSession
    \/ \E op \in RegisterOps : op_call(op) /\ UNCHANGED outsideSession
    \/ op_wait /\ UNCHANGED outsideSession
    \/ \E o \in OkOutcomes \cup ErrorOutcomes : op_result(o) /\ UNCHANGED outsideSession

LiveFairness ==
    /\ WF_vars((\E ans \in ConnectAnswers : connect_result(ans)) /\ UNCHANGED outsideSession)
    /\ WF_vars(connect_backoff /\ UNCHANGED outsideSession)
    /\ WF_vars(connect_return /\ UNCHANGED outsideSession)
    /\ \A k \in Mons :
          /\ WF_vars(mon_top(k) /\ UNCHANGED outsideSession)
          /\ WF_vars((\E ans \in ConnectAnswers : mon_result(k, ans))
                        /\ UNCHANGED outsideSession)
          /\ WF_vars(mon_poll(k) /\ UNCHANGED outsideSession)
    /\ WF_vars(op_wait /\ UNCHANGED outsideSession)
    /\ WF_vars((\E o \in OkOutcomes \cup ErrorOutcomes : op_result(o))
                  /\ UNCHANGED outsideSession)

SpecLive == LiveInit /\ [][LiveNext]_vars /\ LiveFairness

\* The queue-driven session on its own.
QueueInitAll ==
    QueueInit /\ ReturnInit /\ ConfigInit /\ SessionInit /\ mode = "persistent"

QueueStep ==
    \/ \E c \in BOOLEAN : q_execute(c) /\ UNCHANGED outsideQueue
    \/ \E k \in Loops : drain_start(k) /\ UNCHANGED outsideQueue
    \/ \E k \in Loops, ok \in BOOLEAN : drain_connected(k, ok) /\ UNCHANGED outsideQueue
    \/ \E k \in Loops, ok \in BOOLEAN : drain_result(k, ok) /\ UNCHANGED outsideQueue
    \/ idle_tick /\ UNCHANGED outsideQueue
    \/ q_link_loss /\ UNCHANGED outsideQueue

SpecQ == QueueInitAll /\ [][QueueStep]_vars

\* The queue-driven session with a caller of execute_and_return next to a
\* caller of execute(), under the cooperative scheduler: a drain loop that
\* can go on does, an invoked action ends, a poll's sleep ends.
ReturnStep ==
    \/ execute_and_return /\ UNCHANGED <<sessionVars, configVars>>
    \/ execute_and_return_poll /\ UNCHANGED <<sessionVars, configVars>>
    \/ \E c \in BOOLEAN : q_execute(c) /\ UNCHANGED outsideQueue
    \/ \E k \in Loops : drain_start(k) /\ UNCHANGED outsideQueue
    \/ \E k \in Loops, ok \in BOOLEAN : drain_connected(k, ok) /\ UNCHANGED outsideQueue
    \/ \E k \in Loops, ok \in BOOLEAN :
          action_end(k, ok) /\ UNCHANGED <<sessionVars, configVars>>

ReturnFairness ==
    /\ \A k \in Loops :
          /\ WF_vars(drain_start(k) /\ UNCHANGED outsideQueue)
          /\ WF_vars((\E ok \in BOOLEAN : drain_connected(k, ok)) /\ UNCHANGED outsideQueue)
          /\ WF_vars((\E ok \in BOOLEAN : action_end(k, ok))
                        /\ UNCHANGED <<sessionVars, configVars>>)
    /\ WF_vars(execute_and_return_poll /\ UNCHANGED <<sessionVars, configVars>>)

SpecR == QueueInitAll /\ [][ReturnStep]_vars /\ ReturnFairness

\* ------------------------------------------------------------- the claims

\* C1 as stated: over any run of one session the adapter is constructed
\* exactly once and reused: no second instance is ever made.
C1_AdapterCreatedOnce == made <= 1

\* A connection attempt starts: connect() or a background loop calls __connect().
AttemptStarts ==
    \/ appPc # "c_await" /\ appPc' = "c_await"
    \/ \E k \in Mons : mon[k].pc # "await" /\ mon'[k].pc = "await"

\* C1 as amended: the session holds no adapter until the first connect() and
\* afterwards none or the latest one constructed; every connection attempt
\* constructs a new adapter, not yet connected, that replaces the previous one.
C1_NewAdapterPerAttempt ==
    /\ [](client \in {NoClient, made})
    /\ [][AttemptStarts =>
            made' = made + 1 /\ client' = made' /\ ~connected'[client']]_vars

\* The session is connected again through its second adapter.
C1_Witness == made = 2 /\ client = 2 /\ is_connected /\ cAttempts = 2

\* C2 as stated: connect() on a session that is not connected makes one
\* connection call, and after a failed attempt it has returned (None) with
\* the session not connected.
C2_OneAttemptThenReturn ==
    api = "connect" =>
        /\ cAttempts <= 1
        /\ (cLast = "fail" => appPc = "idle" /\ ret = "None" /\ ~is_connected)

\* C2 as amended: after a failed attempt connect() is in its back-off, about
\* to try again (or the handler raised because disconnect() removed the
\* adapter); connect() is about to return, or has returned normally, only
\* after an attempt succeeded or a pass of its loop found the session connected.
C2_ConnectRetriesUntilConnected ==
    api = "connect" =>
        /\ (cLast = "fail" => appPc = "c_backoff" \/ (appPc = "idle" /\ ret = "raised"))
        /\ (appPc = "c_yield" \/ (appPc = "idle" /\ ret = "None"))
               => cLast \in {"ok", "found", "already"}

C2_Witness ==
    /\ api = "connect" /\ appPc = "idle" /\ ret = "None"
    /\ cAttempts >= 2 /\ cLast = "ok"

\* C3: temp_connect with a callable callback invokes the callback exactly
\* once, and when the callback ends (returning or raising) the adapter is
\* closed as temp_connect returns; the callback's result is returned, or
\* None when it raised, and nothing is raised.
C3_TempConnectAlwaysCloses ==
    /\ [](mode = "ephemeral" => cbCalls <= 1 /\ (cbCalls = 1 => cbCallable))
    /\ [][(appPc = "t_cb" /\ appPc' = "t_done") =>
            /\ cbCalls' = 1
            /\ ~is_connected'
            /\ (outcome' = "cb_return" => ret' = "cb_result")
            /\ (outcome' = "cb_raise" => ret' = "None")]_vars

C3_Witness ==
    /\ mode = "ephemeral" /\ appPc = "t_done" /\ outcome = "cb_raise"
    /\ cbCalls = 1 /\ calls = 0 /\ soft_discon /\ discLogs = 1
    /\ ~is_connected /\ ret = "None"

\* C4 as stated: once a connection attempt of temp_connect has failed, the
\* callback is not run and temp_connect ends by raising.
C4_FailureIsRaised ==
    (mode = "ephemeral" /\ (cLast = "fail" \/ cAttempts >= 2)) =>
        /\ cbCalls = 0
        /\ (appPc = "t_done" => ret = "raised")

\* C4 as amended: temp_connect with a callable callback never raises; a
\* failed connection attempt puts it in connect()'s back-off with the
\* callback not run, and the callback runs only after the connection is up.
C4_TempConnectNeverRaises ==
    (mode = "ephemeral" /\ cbCallable) =>
        /\ ret # "raised"
        /\ (cLast = "fail" => appPc = "c_backoff" /\ cbCalls = 0)
        /\ (cbCalls > 0 => cLast \in {"ok", "found", "already"})

C4_Witness ==
    /\ mode = "ephemeral" /\ cbCallable /\ cAttempts >= 2
    /\ appPc = "t_done" /\ cbCalls = 1 /\ ret = "cb_result"

\* C5: a register operation never raises; when the adapter answered with an
\* error response or raised, and when there is no adapter to call, a read
\* returns None and a write returns False.
C5_OperationErrorsDegrade ==
    api \in RegisterOps =>
        /\ ret # "raised"
        /\ (outcome \in ErrorOutcomes \/ (outcome = "none" /\ ret # "none"))
               => ret = (IF api \in ReadOps THEN "None" ELSE "False")

\* A write on a connected session whose adapter call raised: False, and the
\* link was soft-disconnected.
C5_Witness ==
    /\ api = "write_register" /\ outcome = "other_exception"
    /\ ret = "False" /\ appPc = "idle" /\ polls = 0
    /\ made = 1 /\ soft_discon /\ discLogs = 1 /\ ~is_connected

\* The ids invoked so far, in order: the completed invocations, then the
\* one in flight.
RunIds ==
    [i \in 1..Len(qLog) |-> qLog[i].id] \o
    (IF \E k \in Loops : qLoop[k].pc = "running"
     THEN <<qLoop[CHOOSE k \in Loops : qLoop[k].pc = "running"].cur>>
     ELSE <<>>)

\* C6: at most one drain loop is active at any time, it is active exactly
\* while the lock is held, the lock is released once per acquisition, and
\* when it is released no submitted action is left: the queue is empty, no
\* retry is pending and every callable action submitted has been invoked.
C6_SingleFlight ==
    /\ Cardinality(ActiveLoops) <= 1
    /\ (qLock <=> ActiveLoops # {})
    /\ qAcquired = qReleased + Cardinality(ActiveLoops)
    /\ ~qLock =>
          /\ qQueue = <<>> /\ qRetry = NoAction
          /\ \A a \in 1..qNext :
                a \in qInvalid \/ (\E i \in DOMAIN qLog : qLog[i].id = a)

\* A burst of MaxActions execute() calls served by one drain loop.
C6_Witness ==
    /\ qNext = MaxActions /\ qInvalid = {}
    /\ qAcquired = 1 /\ qReleased = 1 /\ ~qLock
    /\ \A a \in 1..MaxActions : \E i \in DOMAIN qLog : qLog[i].id = a

\* C7: actions are invoked in submission order; an action is invoked at most
\* twice, the second time only after its own failure and immediately after
\* it, before any later action.
C7_FifoRetryOnce ==
    /\ \A i \in DOMAIN RunIds :
          /\ i > 1 => RunIds[i - 1] <= RunIds[i]
          /\ Cardinality({j \in DOMAIN RunIds : RunIds[j] = RunIds[i]}) <= 2
    /\ \A i \in DOMAIN qLog :
          /\ (i < Len(RunIds) /\ RunIds[i + 1] = qLog[i].id) => ~qLog[i].ok
          /\ (~qLog[i].ok /\ (i = 1 \/ qLog[i - 1].id # qLog[i].id))
                => IF i < Len(RunIds) THEN RunIds[i + 1] = qLog[i].id
                   ELSE qRetry = qLog[i].id

\* Action 1 failed twice and was dropped, then action 2 ran.
C7_Witness ==
    /\ Len(qLog) >= 3
    /\ qLog[1] = [id |-> 1, ok |-> FALSE]
    /\ qLog[2] = [id |-> 1, ok |-> FALSE]
    /\ qLog[3].id = 2

\* C8: when the session has been idle (unlocked) for longer than the idle
\* timeout, the connection is closed; and an action enqueued after that close
\* (its execute() took the lock) is invoked for the first time after exactly
\* one connect() call.
C8_IdleCloseThenOneReconnect ==
    /\ (~qLock /\ qIdleTicks > IdleTimeout) => ~qConn
    /\ \A k \in Loops :
          (qLoop[k].pc = "running" /\ qLoop[k].cur = qFirst /\ qRunsSince = 0
                /\ qWasIdleClosed)
              => qConnSince = 1

C8_Witness ==
    /\ qWasIdleClosed /\ qRunsSince = 0 /\ qConnSince = 1 /\ qConn
    /\ qAcquired = 2 /\ qIdleTicks > IdleTimeout
    /\ \E k \in Loops : qLoop[k].pc = "running" /\ qLoop[k].cur = qFirst

\* C9: connect() on a connected session changes nothing: no adapter is
\* made, no connect call is issued, no background task is started, and the
\* session is still connected when it returns.
C9_ConnectIdempotent ==
    [][(mode = "persistent" /\ appPc = "idle" /\ is_connected
            /\ calls' = calls + 1 /\ api' = "connect") =>
        /\ made' = made /\ client' = client /\ connected' = connected
        /\ mon' = mon /\ cAttempts' = 0
        /\ appPc' = "idle" /\ ret' = "None" /\ is_connected']_vars

C9_Witness ==
    /\ api = "connect" /\ cLast = "already" /\ appPc = "idle"
    /\ is_connected /\ made = 1 /\ calls = 2

C10_Witness == closes = 2 /\ discLogs = 1 /\ ~is_connected

\* C11: a soft disconnect that takes a persistent session from connected to
\* disconnected announces it: each such transition (the first, and the one
\* after a reconnection) logs "Disconnected!" once.
C11_EachTransitionAnnounced ==
    [][(mode = "persistent" /\ appPc = "x_await" /\ appPc' = "idle"
            /\ is_connected /\ ~is_connected') =>
        discLogs' = discLogs + 1]_vars

\* connect() has returned at least once: a background _reconnect_loop exists.
MonitorStarted == \E k \in Mons : mon[k].pc # "none"

C13_OperationsTerminate ==
    /\ [](polls <= MaxWaitPolls /\ (appPc = "x_wait" => polls < MaxWaitPolls))
    /\ (appPc \in {"x_wait", "x_await"}) ~> (appPc = "idle")

\* An operation called on a session whose link was down has waited all its
\* polls, the link did not come back, and it has returned.
C13_Witness ==
    /\ api \in ReadOps /\ appPc = "idle" /\ ret = "None"
    /\ polls = MaxWaitPolls /\ ~is_connected /\ made = 1

\* The action of execute_and_return is being invoked / has been invoked to its end.
ErRunning == \E k \in Loops : qLoop[k].pc = "running" /\ qLoop[k].cur = erId
ErLogged == \E i \in DOMAIN qLog : qLog[i].id = erId

\* C14: execute_and_return returns the result when the completion flag is
\* set and None when the timeout has elapsed without it, and it does return;
\* the action, once invoked, runs to its end whether or not the caller has
\* given up, and its completed invocations stay on record.
C14_TimeoutLeavesActionRunning ==
    /\ [][(erPc = "waiting" /\ erPc' = "returned") =>
            IF erDone THEN erRet' = "result"
            ELSE erRet' = "None" /\ erTicks >= ErTimeout]_vars
    /\ [][ErLogged => ErLogged']_vars
    /\ (erPc = "waiting") ~> (erPc = "returned")
    /\ ErRunning ~> ErLogged

\* The caller gave up with None, and the action completed afterwards.
C14_Witness ==
    /\ erPc = "returned" /\ erRet = "None" /\ erDone
    /\ \E i \in DOMAIN qLog : qLog[i] = [id |-> erId, ok |-> TRUE]

\* C15: a read operation whose adapter call succeeded returns the registers
\* of the response, the empty sequence when the response carries none, and
\* what was received when the count differs from the requested one; never
\* None, never an exception.
C15_ReadReturnsWhatWasReceived ==
    (api \in ReadOps /\ outcome \in OkOutcomes) =>
        /\ appPc \in {"idle", "t_cb"}
        /\ ret = (CASE outcome = "ok" -> "registers"
                    [] outcome = "ok_mismatch" -> "registers_mismatch"
                    [] outcome = "ok_noregs" -> "empty")

\* A read returned a response with another number of registers than asked.
C15_Witness ==
    /\ api = "read_holding_registers" /\ outcome = "ok_mismatch"
    /\ ret = "registers_mismatch" /\ appPc = "idle" /\ is_connected

\* C16: set_reconnect_interval with a non-integer or a value below 1, and
\* set_logger with an object lacking a callable info, warning or error,
\* return without raising, print a diagnostic and leave the configured
\* interval and logger as they were.
C16_InvalidConfigRejected ==
    /\ [](cfgRet # "raised")
    /\ [][(cfgApi' = "set_reconnect_interval"
             /\ (cfgArg'.type \notin {"int", "bool"} \/ cfgArg'.val < 1)) =>
            /\ reconnect_interval' = reconnect_interval /\ logger' = logger
            /\ cfgRet' = "None" /\ cfgPrinted']_vars
    /\ [][(cfgApi' = "set_logger"
             /\ ("callable" # cfgArg'.info \/ "callable" # cfgArg'.warning
                   \/ "callable" # cfgArg'.error)) =>
            /\ reconnect_interval' = reconnect_interval /\ logger' = logger
            /\ cfgRet' = "None" /\ cfgPrinted']_vars

\* An interval and a logger were configured, then set_logger rejected an
\* object whose error is not callable: both are as they were.
C16_Witness ==
    /\ cfgApi = "set_logger" /\ cfgArg.error = "value" /\ cfgArg.id = 2
    /\ cfgArg.info = "callable" /\ cfgArg.warning = "callable"
    /\ cfgPrinted /\ logger = 1 /\ reconnect_interval = 2

\* C17: once temp_connect has returned, no adapter is constructed and the
\* session's link stays closed.
C17_TempSessionStaysClosed ==
    [][(mode = "ephemeral" /\ appPc = "t_done") =>
        made' = made /\ client' = client /\ ~is_connected']_vars

\* C18: a session without an adapter gets one only from connect() called
\* by the application (no background task creates one after disconnect()),
\* and no background task dies of an unhandled exception.
C18_NoAdapterUntilConnect ==
    /\ [][(client = NoClient /\ client' # NoClient) =>
            (appPc # "c_await" /\ appPc' = "c_await")]_vars
    /\ [](\A k \in Mons : mon[k].pc # "crashed")

\* The background _reconnect_loop tasks that are alive (started or about to
\* start, neither ended nor dead).
AliveMonitors == {k \in Mons : mon[k].pc \in {"ready", "await", "poll", "backoff"}}

\* C19: at most one background _reconnect_loop is alive per session.
C19_OneMonitor == Cardinality(AliveMonitors) <= 1

\* C20: the adapter's request method is called only while the session is
\* connected: a register operation whose wait for reconnection expired with
\* the session still not connected does not call the adapter.
C20_SkippedOperationMakesNoCall ==
    [][(appPc # "x_await" /\ appPc' = "x_await") => is_connected]_vars

====
